---- MODULE Spec2Model ----
(***************************************************************************)
(* OpenMRP backend: the MRP run engine of routers/mrp.py over the tables   *)
(* of models/inventory.py, models/bom.py and models/production.py.         *)
(*                                                                         *)
(* The database is modelled as its committed tables.  A request that       *)
(* writes runs in its own SQLAlchemy session: rows it adds and flushes are *)
(* held in the session (visible to that session only) until db.commit()   *)
(* moves them to the committed tables in one step.  Reads of other         *)
(* requests see the committed tables only.  Ids come from sequences that   *)
(* never hand out a value twice.  Quantities are the Float columns of the  *)
(* models, modelled as integers; dates are day numbers.                    *)
(***************************************************************************)
EXTENDS Integers, Sequences, FiniteSets, TLC

\* ------------------------------------------------------------------ bounds

\* Number of process_bom_components frames the interpreter stack can hold:
\* opening one more raises RecursionError.
RecursionLimit == 3

\* Run ids the mrprun id sequence hands out before the model stops creating runs.
MaxRuns == 2

\* Largest quantity_on_hand the inventory transactions of the model build up.
MaxOnHand == 6

\* Number of inventory transactions the model commits.
MaxLedger == 3

\* Largest mpsitem id the schedule updates of the model hand out.
MaxLineId == 4

\* ------------------------------------------------------------- value sets

NULL == 0

ItemIds == {1, 2, 3}
BomIds == {1, 2}
MpsIds == {1}
\* The mps ids requests name: id 2 has no row in the mps table.
RequestMpsIds == {1, 2}
Sessions == {"s1", "s2"}

Max(a, b) == IF a >= b THEN a ELSE b

\* Rows an inventoryitem can hold (quantity_on_hand, reorder_point).
ItemRows ==
    { [quantity_on_hand |-> 1, reorder_point |-> 0],
      [quantity_on_hand |-> 4, reorder_point |-> 2] }

\* The schemas put no lower limit on reorder_point: a table in which item 2
\* was created with a negative one.
NegativeReorderTables ==
    { [i \in ItemIds |->
         IF i = 1 THEN [quantity_on_hand |-> 4, reorder_point |-> 2]
         ELSE IF i = 2 THEN [quantity_on_hand |-> 1, reorder_point |-> -3]
         ELSE [quantity_on_hand |-> 1, reorder_point |-> 0]] }

\* The inventoryitem tables the model starts from: every item exists.
ItemTables == [ItemIds -> ItemRows] \cup NegativeReorderTables

\* The item ids DELETE /api/inventory/items/{item_id} is called with.
DeletableItems == {2}

\* A bomcomponent row.
Comp(c, q) == [component_id |-> c, quantity |-> q]

\* The bom tables the model starts from: BOM 1 makes item 1 from 2 x item 2
\* and 1 x item 3; BOM 2 makes item 2 from one of the three items (item 3: a
\* three-level structure, item 1 or item 2: a structure that leads back to a
\* BOM already being exploded).
BomTables ==
    { [b \in BomIds |->
         IF b = 1
         THEN [product_id |-> 1, is_active |-> a1,
               components |-> << Comp(2, 2), Comp(3, 1) >>]
         ELSE [product_id |-> 2, is_active |-> TRUE,
               components |-> << Comp(c, 1) >>]]
      : a1 \in BOOLEAN, c \in ItemIds }

\* An mpsitem row.
Line(i, p, q, d) == [id |-> i, product_id |-> p, quantity |-> q, planned_date |-> d]

\* The schedules MPS 1 starts with: 5 of item 1 by day 10, then 3 of item 2
\* or of item 3 by day 12.
MpsTables ==
    { [m \in MpsIds |-> << Line(1, 1, 5, 10), Line(2, p, 3, 12) >>] : p \in {2} }

LeadTimeFactors == {1}

\* Bodies of POST /api/mrp/ (MRPRunCreate).
Requests ==
    [mps_id : RequestMpsIds,
     lead_time_factor : LeadTimeFactors,
     include_safety_stock : BOOLEAN]

VARIABLES
    items,       \* inventoryitem table: id -> row
    boms,        \* bom table with its bomcomponent rows: id -> row
    mpss,        \* mps table with its mpsitem rows: id -> schedule_items
    runs,        \* committed mrprun rows
    nodes,       \* committed mrpitem rows
    nextRunId,   \* next value of the mrprun id sequence
    nextNodeId,  \* next value of the mrpitem id sequence
    pool,        \* the sessions that serve create_mrp_run requests
    sess,        \* per session: the create_mrp_run request in progress
    resp,        \* the response of the last read or delete request on runs
    locked,      \* the ids of the mps rows with is_locked = True
    orders,      \* productionorder table: id -> row
    ledger,      \* committed inventorytransaction rows with their details
    txs          \* per session: the create_transaction request in progress

vars == << items, boms, mpss, runs, nodes, nextRunId, nextNodeId, pool, sess, resp,
          locked, orders, ledger, txs >>

\* ----------------------------------------------------------------- queries

\* What .first() returns when no inventoryitem row matches (None).
NoItem == [id |-> NULL, quantity_on_hand |-> 0, reorder_point |-> 0]

QueryItemMutZeroRow(id) ==
    IF id \in DOMAIN items
    THEN [id |-> id, quantity_on_hand |-> items[id].quantity_on_hand,
          reorder_point |-> items[id].reorder_point]
    ELSE [id |-> id, quantity_on_hand |-> 0, reorder_point |-> 0]

QueryItemMutNetOfFlushed(id) ==
    IF id \in DOMAIN items
    THEN [id |-> id,
          quantity_on_hand |-> items[id].quantity_on_hand
              - Cardinality({ n \in nodes \cup UNION { sess[s].added : s \in Sessions } :
                                n.item_id = id }),
          reorder_point |-> items[id].reorder_point]
    ELSE NoItem

\* db.query(InventoryItem).filter(InventoryItem.id == id).first()
QueryItem(id) ==
    IF id \in DOMAIN items
    THEN [id |-> id, quantity_on_hand |-> items[id].quantity_on_hand,
          reorder_point |-> items[id].reorder_point]
    ELSE NoItem

\* What .first() returns when no mps row matches (None).
NoMps == [id |-> NULL, schedule_items |-> << >>]

QueryMpsMutEmptySchedule(mps_id) ==
    IF mps_id \in DOMAIN mpss
    THEN [id |-> mps_id, schedule_items |-> mpss[mps_id]]
    ELSE [id |-> mps_id, schedule_items |-> << >>]

\* db.query(MPSModel).options(joinedload(MPSModel.schedule_items))
\*   .filter(MPSModel.id == mps_id).first()
QueryMps(mps_id) ==
    IF mps_id \in DOMAIN mpss
    THEN [id |-> mps_id, schedule_items |-> mpss[mps_id]]
    ELSE NoMps

ActiveBOMMutAnyVersion(p) ==
    LET S == { b \in DOMAIN boms : boms[b].product_id = p }
    IN  IF S = {} THEN NULL ELSE CHOOSE b \in S : \A x \in S : b <= x

\* db.query(BOM).filter(BOM.product_id == p, BOM.is_active == True).first():
\* the id of the first such row, NULL when there is none.
ActiveBOM(p) ==
    LET S == { b \in DOMAIN boms : boms[b].product_id = p /\ boms[b].is_active }
    IN  IF S = {} THEN NULL ELSE CHOOSE b \in S : \A x \in S : b <= x

\* db.query(BOMComponent).filter(BOMComponent.bom_id == bom.id).all()
ComponentsOf(b) == boms[b].components

\* The mrpitem rows a session sees for a run: committed rows and its own.
NodesOfRun(r) == { n \in nodes : n.mrp_run_id = r }

\* ----------------------------------------------------------- calculations

calculate_release_dateMutNoFactor(required_date, item, lead_time_factor) ==
    required_date - 1

\* The item model defines no lead_time attribute, so hasattr(item,
\* 'lead_time') is false for every item and for None: one day is used.
calculate_release_date(required_date, item, lead_time_factor) ==
    LET lead_time_days == 1
        adjusted_lead_time == lead_time_days * lead_time_factor
    IN  required_date - adjusted_lead_time

ProductOnHandMutDefaultOne(product) ==
    IF product.id # NULL THEN product.quantity_on_hand ELSE 1

ProductOnHandMutNetOfRuns(product) ==
    IF product.id # NULL
    THEN product.quantity_on_hand - Cardinality({ n \in nodes : n.item_id = product.id })
    ELSE 0

\* product.quantity_on_hand if product else 0
ProductOnHand(product) ==
    IF product.id # NULL THEN product.quantity_on_hand ELSE 0

\* max(0, mps_item.quantity - (product.quantity_on_hand if product else 0))
TopNet(quantity, on_hand) == Max(0, quantity - on_hand)

ProductMrpItemMutLotOfTwo(id, run_id, mps_item, bom, lead_time_factor) ==
    LET product == QueryItem(mps_item.product_id)
        on_hand == ProductOnHand(product)
    IN  [id |-> id,
         mrp_run_id |-> run_id,
         mps_item_id |-> mps_item.id,
         item_id |-> mps_item.product_id,
         bom_id |-> bom,
         required_date |-> mps_item.planned_date,
         gross_requirement |-> mps_item.quantity,
         projected_on_hand |-> on_hand,
         net_requirement |-> TopNet(mps_item.quantity, on_hand),
         planned_order_release |-> TopNet(mps_item.quantity, on_hand),
         planned_order_receipt |->
             2 * ((TopNet(mps_item.quantity, on_hand) + 1) \div 2),
         order_release_date |->
             calculate_release_date(mps_item.planned_date, product, lead_time_factor),
         is_critical |-> mps_item.quantity > on_hand,
         parent_id |-> NULL]

ProductMrpItemMutSafetyStock(id, run_id, mps_item, bom, lead_time_factor) ==
    LET product == QueryItem(mps_item.product_id)
        on_hand == ProductOnHand(product)
    IN  [id |-> id,
         mrp_run_id |-> run_id,
         mps_item_id |-> mps_item.id,
         item_id |-> mps_item.product_id,
         bom_id |-> bom,
         required_date |-> mps_item.planned_date,
         gross_requirement |-> mps_item.quantity,
         projected_on_hand |-> on_hand,
         net_requirement |-> TopNet(mps_item.quantity + product.reorder_point, on_hand),
         planned_order_release |-> TopNet(mps_item.quantity, on_hand),
         planned_order_receipt |-> TopNet(mps_item.quantity, on_hand),
         order_release_date |->
             calculate_release_date(mps_item.planned_date, product, lead_time_factor),
         is_critical |-> mps_item.quantity > on_hand,
         parent_id |-> NULL]

\* The MRPItemModel built for a demand line whose product has active BOM bom.
ProductMrpItem(id, run_id, mps_item, bom, lead_time_factor) ==
    LET product == QueryItem(mps_item.product_id)
        on_hand == ProductOnHand(product)
    IN  [id |-> id,
         mrp_run_id |-> run_id,
         mps_item_id |-> mps_item.id,
         item_id |-> mps_item.product_id,
         bom_id |-> bom,
         required_date |-> mps_item.planned_date,
         gross_requirement |-> mps_item.quantity,
         projected_on_hand |-> on_hand,
         net_requirement |-> TopNet(mps_item.quantity, on_hand),
         planned_order_release |-> TopNet(mps_item.quantity, on_hand),
         planned_order_receipt |-> TopNet(mps_item.quantity, on_hand),
         order_release_date |->
             calculate_release_date(mps_item.planned_date, product, lead_time_factor),
         is_critical |-> mps_item.quantity > on_hand,
         parent_id |-> NULL]

\* gross_req = parent_quantity * component.quantity
GrossReq(parent_quantity, quantity) == parent_quantity * quantity

SafetyStockMutAlways(item, include_safety_stock) == item.reorder_point

\* item.reorder_point if include_safety_stock and item.reorder_point else 0
SafetyStock(item, include_safety_stock) ==
    IF include_safety_stock /\ item.reorder_point # 0 THEN item.reorder_point ELSE 0

NetReqMutNoClamp(gross_req, safety_stock, projected_on_hand) ==
    gross_req + safety_stock - projected_on_hand

\* net_req = max(0, gross_req + safety_stock - projected_on_hand)
NetReq(gross_req, safety_stock, projected_on_hand) ==
    Max(0, gross_req + safety_stock - projected_on_hand)

ComponentMrpItemMutCriticalOnShortage(id, run_id, component, parent_id, required_date, parent_quantity, lead_time_factor, include_safety_stock) ==
    LET item == QueryItem(component.component_id)
        gross_req == GrossReq(parent_quantity, component.quantity)
        safety_stock == SafetyStock(item, include_safety_stock)
        projected_on_hand == item.quantity_on_hand
        net_req == NetReq(gross_req, safety_stock, projected_on_hand)
    IN  [id |-> id,
         mrp_run_id |-> run_id,
         mps_item_id |-> NULL,
         item_id |-> component.component_id,
         bom_id |-> ActiveBOM(component.component_id),
         required_date |-> required_date,
         gross_requirement |-> gross_req,
         projected_on_hand |-> projected_on_hand,
         net_requirement |-> net_req,
         planned_order_release |-> net_req,
         planned_order_receipt |-> net_req,
         order_release_date |->
             calculate_release_date(required_date, item, lead_time_factor),
         is_critical |-> projected_on_hand < gross_req,
         parent_id |-> parent_id]

\* The MRPItemModel built for BOM component `component` under a parent node.
ComponentMrpItem(id, run_id, component, parent_id, required_date, parent_quantity, lead_time_factor, include_safety_stock) ==
    LET item == QueryItem(component.component_id)
        gross_req == GrossReq(parent_quantity, component.quantity)
        safety_stock == SafetyStock(item, include_safety_stock)
        projected_on_hand == item.quantity_on_hand
        net_req == NetReq(gross_req, safety_stock, projected_on_hand)
    IN  [id |-> id,
         mrp_run_id |-> run_id,
         mps_item_id |-> NULL,
         item_id |-> component.component_id,
         bom_id |-> ActiveBOM(component.component_id),
         required_date |-> required_date,
         gross_requirement |-> gross_req,
         projected_on_hand |-> projected_on_hand,
         net_requirement |-> net_req,
         planned_order_release |-> net_req,
         planned_order_receipt |-> net_req,
         order_release_date |->
             calculate_release_date(required_date, item, lead_time_factor),
         is_critical |-> net_req > 0 /\ projected_on_hand < gross_req,
         parent_id |-> parent_id]

\* ---------------------------------------------------------------- sessions

NoResult == [status |-> 0, detail |-> "", run_id |-> NULL, mps_id |-> NULL]

NoRun == [id |-> NULL, mps_id |-> NULL, lead_time_factor |-> 0, include_safety_stock |-> FALSE]

\* A session with no create_mrp_run in progress, holding the last response.
Idle(result) ==
    [pc |-> "idle", run |-> NoRun, lines |-> << >>, idx |-> 0,
     stack |-> << >>, added |-> {}, result |-> result]

ParentQuantityMutGross(mrp_item) == mrp_item.gross_requirement

\* The parent_quantity argument process_bom_components is called with: the
\* planned_order_release of the row the components are exploded under.
ParentQuantity(mrp_item) == mrp_item.planned_order_release

FrameMutOwnId(bom, parent_id, required_date, parent_quantity) ==
    [bom |-> bom, components |-> boms[bom].components, i |-> 1,
     parent_id |-> parent_id + 1, required_date |-> required_date,
     parent_quantity |-> parent_quantity]

\* One open call of process_bom_components: its arguments, the components it
\* queried on entry and the position of its for loop.
Frame(bom, parent_id, required_date, parent_quantity) ==
    [bom |-> bom, components |-> ComponentsOf(bom), i |-> 1,
     parent_id |-> parent_id, required_date |-> required_date,
     parent_quantity |-> parent_quantity]

RECURSIVE Unwind(_)
\* Calls whose for loop is exhausted return to their caller.
Unwind(stack) ==
    IF stack = << >> THEN stack
    ELSE LET top == stack[Len(stack)]
         IN  IF top.i > Len(top.components)
             THEN Unwind(SubSeq(stack, 1, Len(stack) - 1))
             ELSE stack

\* The top frame's for loop moves to its next component.
Advance(stack) ==
    [stack EXCEPT ![Len(stack)].i = @ + 1]

FlushMutCommit(table, rows) == table \cup rows

\* db.add(row); db.flush(): the row is sent to the database inside the
\* session's open transaction, so the committed table does not change.
Flush(table, rows) == table

\* What get_db leaves of a request that raised: the session is closed, its
\* open transaction rolled back, none of its flushed rows is committed.
RolledBack(added) == {}

RunIdsMutUncommitted ==
    { r.id : r \in runs } \cup { sess[s].run.id : s \in { x \in pool : sess[x].pc = "lines" } }

\* The ids a query on mrprun finds: those of the committed rows.
RunIds == { r.id : r \in runs }

\* The sessions that serve create_transaction requests step by step.
TxSessions == {"t1", "t2"}

\* A session with no create_transaction in progress.
NoTx == [pc |-> "idle", transaction |-> [transaction_type |-> "", details |-> << >>],
         k |-> 0, dirty |-> << >>, status |-> 0]

\* ------------------------------------------------------------------- state

Init ==
    /\ items \in ItemTables
    /\ boms \in BomTables
    /\ mpss \in MpsTables
    /\ runs = {}
    /\ nodes = {}
    /\ nextRunId = 1
    /\ nextNodeId = 1
    \* One create_mrp_run request is served at a time; reads and deletes
    \* interleave with its steps.
    /\ pool = {"s1"}
    /\ sess = [s \in Sessions |-> Idle(NoResult)]
    /\ resp = [op |-> "", arg |-> NULL, status |-> 0, ids |-> {}]
    /\ locked = {}
    /\ orders = << >>
    /\ ledger = << >>
    /\ txs = [t \in TxSessions |-> NoTx]

\* ----------------------------------------------------------- create_mrp_run

\* POST /api/mrp/ up to the first flush: the MPS is looked up with its
\* schedule items; an unknown id is answered 404 before anything is added,
\* otherwise the run row is added and flushed to obtain its id.
create_mrp_run_begin(s, mrp_run) ==
    /\ sess[s].pc = "idle"
    /\ LET mps == QueryMps(mrp_run.mps_id) IN
       IF mps.id = NULL
       THEN /\ sess' = [sess EXCEPT ![s] =
                   Idle([status |-> 404, detail |-> "MPS not found",
                         run_id |-> NULL, mps_id |-> mrp_run.mps_id])]
            /\ UNCHANGED << runs, nextRunId >>
       ELSE /\ nextRunId <= MaxRuns
            /\ LET db_mrp_run ==
                       [id |-> nextRunId,
                        mps_id |-> mrp_run.mps_id,
                        lead_time_factor |-> mrp_run.lead_time_factor,
                        include_safety_stock |-> mrp_run.include_safety_stock]
               IN  /\ sess' = [sess EXCEPT ![s] =
                          [pc |-> "lines", run |-> db_mrp_run,
                           lines |-> mps.schedule_items, idx |-> 1,
                           stack |-> << >>, added |-> {}, result |-> NoResult]]
                   /\ runs' = Flush(runs, {db_mrp_run})
            /\ nextRunId' = nextRunId + 1
    /\ UNCHANGED << items, boms, mpss, nodes, nextNodeId, pool, resp, locked, orders, ledger, txs >>

\* One pass of the loop over mps_items, up to the call of
\* process_bom_components: a product without active BOM is skipped, otherwise
\* its top-level row is added and flushed and the explosion of its BOM opens.
create_mrp_run_line(s) ==
    /\ sess[s].pc = "lines"
    /\ sess[s].stack = << >>
    /\ sess[s].idx <= Len(sess[s].lines)
    /\ LET mps_item == sess[s].lines[sess[s].idx]
           bom == ActiveBOM(mps_item.product_id)
           product_mrp_item ==
               ProductMrpItem(nextNodeId, sess[s].run.id, mps_item, bom,
                              sess[s].run.lead_time_factor)
       IN  IF bom = NULL
           THEN /\ sess' = [sess EXCEPT ![s].idx = @ + 1]
                /\ UNCHANGED << nodes, nextNodeId >>
           ELSE /\ sess' = [sess EXCEPT
                       ![s].idx = @ + 1,
                       ![s].added = @ \cup {product_mrp_item},
                       ![s].stack =
                           Unwind(<< Frame(bom, product_mrp_item.id,
                                           mps_item.planned_date,
                                           ParentQuantity(product_mrp_item)) >>)]
                /\ nodes' = Flush(nodes, {product_mrp_item})
                /\ nextNodeId' = nextNodeId + 1
    /\ UNCHANGED << items, boms, mpss, runs, nextRunId, pool, resp, locked, orders, ledger, txs >>

\* One pass of the loop over components in the innermost open call of
\* process_bom_components: a component whose item is missing is skipped;
\* otherwise its row is added and flushed and, when the component has an
\* active BOM of its own, the function calls itself.  A call that would
\* exceed the interpreter's stack raises RecursionError out of the request.
process_bom_components(s) ==
    /\ sess[s].pc = "lines"
    /\ sess[s].stack # << >>
    /\ LET stack == sess[s].stack
           top == stack[Len(stack)]
           component == top.components[top.i]
           item == QueryItem(component.component_id)
       IN  IF item.id = NULL
           THEN /\ sess' = [sess EXCEPT ![s].stack = Unwind(Advance(stack))]
                /\ UNCHANGED << nodes, nextNodeId >>
           ELSE LET component_mrp_item ==
                        ComponentMrpItem(nextNodeId, sess[s].run.id, component,
                                         top.parent_id, top.required_date,
                                         top.parent_quantity,
                                         sess[s].run.lead_time_factor,
                                         sess[s].run.include_safety_stock)
                    component_bom == component_mrp_item.bom_id
                IN  /\ nextNodeId' = nextNodeId + 1
                    /\ IF component_bom = NULL
                       THEN /\ sess' = [sess EXCEPT
                                   ![s].added = @ \cup {component_mrp_item},
                                   ![s].stack = Unwind(Advance(stack))]
                            /\ nodes' = Flush(nodes, {component_mrp_item})
                       ELSE IF Len(stack) >= RecursionLimit
                       THEN /\ sess' = [sess EXCEPT ![s] =
                                   Idle([status |-> 500, detail |-> "RecursionError",
                                         run_id |-> sess[s].run.id,
                                         mps_id |-> sess[s].run.mps_id])]
                            /\ nodes' = nodes \cup
                                   RolledBack(sess[s].added \cup {component_mrp_item})
                       ELSE /\ sess' = [sess EXCEPT
                                   ![s].added = @ \cup {component_mrp_item},
                                   ![s].stack =
                                       Unwind(Append(Advance(stack),
                                           Frame(component_bom, component_mrp_item.id,
                                                 top.required_date,
                                                 ParentQuantity(component_mrp_item))))]
                            /\ nodes' = Flush(nodes, {component_mrp_item})
    /\ UNCHANGED << items, boms, mpss, runs, nextRunId, pool, resp, locked, orders, ledger, txs >>

create_mrp_run_commitMutAllocates(s) ==
    /\ sess[s].pc = "lines"
    /\ sess[s].stack = << >>
    /\ sess[s].idx > Len(sess[s].lines)
    /\ runs' = runs \cup {sess[s].run}
    /\ nodes' = nodes \cup sess[s].added
    /\ items' = [i \in DOMAIN items |->
           IF \E n \in sess[s].added : n.item_id = i
           THEN [items[i] EXCEPT !.quantity_on_hand = 0]
           ELSE items[i]]
    /\ sess' = [sess EXCEPT ![s] =
           Idle([status |-> 201, detail |-> "created",
                 run_id |-> sess[s].run.id, mps_id |-> sess[s].run.mps_id])]
    /\ UNCHANGED << boms, mpss, nextRunId, nextNodeId, pool, resp, locked, orders, ledger, txs >>

\* db.commit() after the loop: the run row and every row added for it become
\* visible together; the request answers 201 with the run.
create_mrp_run_commit(s) ==
    /\ sess[s].pc = "lines"
    /\ sess[s].stack = << >>
    /\ sess[s].idx > Len(sess[s].lines)
    /\ runs' = runs \cup {sess[s].run}
    /\ nodes' = nodes \cup sess[s].added
    /\ sess' = [sess EXCEPT ![s] =
           Idle([status |-> 201, detail |-> "created",
                 run_id |-> sess[s].run.id, mps_id |-> sess[s].run.mps_id])]
    /\ UNCHANGED << items, boms, mpss, nextRunId, nextNodeId, pool, resp, locked, orders, ledger, txs >>

\* ----------------------------------------------------------- other requests

\* Run ids the read and delete requests name.
RequestRunIds == 1 .. MaxRuns

CascadeMutNone(run_id) == {}

\* MRPRun.mrp_items is declared cascade="all, delete-orphan": deleting the
\* run deletes the mrpitem rows of its collection.
Cascade(run_id) == NodesOfRun(run_id)

\* DELETE /api/mrp/{run_id}
delete_mrp_run(run_id) ==
    /\ IF run_id \notin RunIds
       THEN /\ resp' = [op |-> "delete_mrp_run", arg |-> run_id, status |-> 404, ids |-> {}]
            /\ UNCHANGED << runs, nodes >>
       ELSE /\ runs' = { r \in runs : r.id # run_id }
            /\ nodes' = nodes \ Cascade(run_id)
            /\ resp' = [op |-> "delete_mrp_run", arg |-> run_id, status |-> 204, ids |-> {}]
    /\ UNCHANGED << items, boms, mpss, nextRunId, nextNodeId, pool, sess, locked, orders, ledger, txs >>

\* GET /api/mrp/{run_id}: the run with its mrp_items, loaded in one query.
read_mrp_run(run_id) ==
    /\ IF run_id \notin RunIds
       THEN resp' = [op |-> "read_mrp_run", arg |-> run_id, status |-> 404, ids |-> {}]
       ELSE resp' = [op |-> "read_mrp_run", arg |-> run_id, status |-> 200,
                     ids |-> { n.id : n \in NodesOfRun(run_id) }]
    /\ UNCHANGED << items, boms, mpss, runs, nodes, nextRunId, nextNodeId, pool, sess, locked, orders, ledger, txs >>

\* GET /api/mrp/ with the default skip and limit: the runs, of one MPS when
\* mps_id is given.
read_mrp_runs(mps_id) ==
    /\ resp' = [op |-> "read_mrp_runs", arg |-> mps_id, status |-> 200,
                ids |-> { r.id : r \in { x \in runs : mps_id = NULL \/ x.mps_id = mps_id } }]
    /\ UNCHANGED << items, boms, mpss, runs, nodes, nextRunId, nextNodeId, pool, sess, locked, orders, ledger, txs >>

\* DELETE /api/inventory/items/{item_id}
delete_inventory_item(item_id) ==
    /\ IF QueryItem(item_id).id = NULL
       THEN UNCHANGED items
       ELSE items' = [i \in DOMAIN items \ {item_id} |-> items[i]]
    /\ UNCHANGED << boms, mpss, runs, nodes, nextRunId, nextNodeId, pool, sess, resp, locked, orders, ledger, txs >>

\* --------------------------------------------------------------- behaviours

Next ==
    \/ \E s \in pool, mrp_run \in Requests : create_mrp_run_begin(s, mrp_run)
    \/ \E s \in pool : create_mrp_run_line(s)
    \/ \E s \in pool : process_bom_components(s)
    \/ \E s \in pool : create_mrp_run_commit(s)
    \/ \E run_id \in RequestRunIds : delete_mrp_run(run_id)
    \/ \E run_id \in RequestRunIds : read_mrp_run(run_id)
    \/ \E mps_id \in {NULL} : read_mrp_runs(mps_id)
    \/ \E item_id \in DeletableItems : delete_inventory_item(item_id)

Spec == Init /\ [][Next]_vars

\* =================================================================== claims

\* Every mrpitem row that exists: committed, or flushed by a session.
AllNodes == nodes \cup UNION { sess[s].added : s \in Sessions }

\* The rows session s adds in a step.
NewNodes(s) == sess'[s].added \ sess[s].added

\* The row with id `id` among the rows of session s.
Added(s, id) == CHOOSE n \in sess[s].added : n.id = id

RECURSIVE Reopens(_, _)
\* Exploding BOM b with the BOMs of `path` open reaches, through components
\* whose items exist, a component whose active BOM is b or on the path.
Reopens(b, path) ==
    \E k \in DOMAIN boms[b].components :
        LET c == boms[b].components[k].component_id
            cb == ActiveBOM(c)
        IN  /\ c \in DOMAIN items
            /\ cb # NULL
            /\ \/ cb \in path \cup {b}
               \/ Reopens(cb, path \cup {b})

\* The BOM graph reachable from a demand line of the MPS contains a cycle.
MpsHasCycle(mps_id) ==
    \E k \in DOMAIN mpss[mps_id] :
        LET b == ActiveBOM(mpss[mps_id][k].product_id)
        IN  b # NULL /\ Reopens(b, {})

\* C1: a CreateRun over an MPS whose BOM graph contains a cycle ends with
\* CycleDetected, and neither its run header nor any of its nodes is
\* persisted.
C1_CycleDetected ==
    \A s \in Sessions :
        LET r == sess[s].result
        IN  (r.status \notin {0, 404} /\ MpsHasCycle(r.mps_id))
            => /\ r.detail = "CycleDetected"
               /\ r.run_id \notin RunIds
               /\ NodesOfRun(r.run_id) = {}

C3_GrossFromParentRelease ==
    [][\A s \in Sessions : \A n \in NewNodes(s) :
          n.parent_id # NULL
          => LET top == sess[s].stack[Len(sess[s].stack)]
                 q == top.components[top.i].quantity
                 parent == Added(s, n.parent_id)
             IN  /\ top.components[top.i].component_id = n.item_id
                 /\ n.gross_requirement = parent.planned_order_release * q]_vars

\* A row two levels below a demand line, under a parent whose release
\* differs from its gross requirement.
C3_Witness ==
    \E s \in Sessions : \E n \in sess[s].added : \E p \in sess[s].added :
        /\ n.parent_id = p.id
        /\ p.parent_id # NULL
        /\ p.planned_order_release # p.gross_requirement
        /\ n.gross_requirement # 0

\* C4: every node, top-level or child, has net_requirement >= 0.
C4_NetNonNegative ==
    \A n \in AllNodes : n.net_requirement >= 0

\* A top-level node and a child node whose on-hand quantity exceeds what is
\* required of them, safety stock (at most 2) included.
C4_Witness ==
    /\ \E n \in AllNodes :
           n.parent_id = NULL /\ n.projected_on_hand > n.gross_requirement
    /\ \E n \in AllNodes :
           n.parent_id # NULL /\ n.projected_on_hand > n.gross_requirement + 2

\* C5: a row added for a BOM component records the component item's
\* on-hand quantity and net_requirement = max(0, gross_requirement +
\* safety_stock - projected_on_hand), safety_stock being the item's
\* reorder_point when the run includes safety stock and 0 when it does not.
C5_ChildNet ==
    [][\A s \in Sessions : \A n \in NewNodes(s) :
          n.parent_id # NULL
          => LET safety_stock ==
                     IF sess[s].run.include_safety_stock
                     THEN items[n.item_id].reorder_point ELSE 0
             IN  /\ n.projected_on_hand = items[n.item_id].quantity_on_hand
                 /\ n.net_requirement =
                        Max(0, n.gross_requirement + safety_stock
                                 - n.projected_on_hand)]_vars

\* Two child rows of item(s) with a reorder point: one in a run that
\* includes safety stock, where it raises the net requirement, and one in a
\* run that does not.
C5_Witness ==
    /\ \E r \in runs : \E n \in NodesOfRun(r.id) :
           /\ r.include_safety_stock
           /\ n.parent_id # NULL
           /\ n.net_requirement > 0
           /\ n.net_requirement > n.gross_requirement - n.projected_on_hand
    /\ \E s \in Sessions : \E n \in sess[s].added :
           /\ ~sess[s].run.include_safety_stock
           /\ n.parent_id # NULL
           /\ n.item_id \in DOMAIN items
           /\ items[n.item_id].reorder_point > 0
           /\ n.net_requirement = n.gross_requirement - n.projected_on_hand

\* The top-level rows of run r.
TopLevel(r) == { n \in NodesOfRun(r) : n.parent_id = NULL }

\* The positions of the demand lines whose product has an active BOM.
LinesWithBom(lines) ==
    { k \in DOMAIN lines :
        \E b \in DOMAIN boms :
            boms[b].product_id = lines[k].product_id /\ boms[b].is_active }

\* C6: when a CreateRun commits, the run has one top-level node per demand
\* line whose product has an active BOM, linked to that line, and none for
\* the other lines.
C6_TopLevelCount ==
    [][\A s \in Sessions :
          (sess[s].pc = "lines" /\ sess'[s].result.status = 201)
          => LET with == LinesWithBom(sess[s].lines)
                 top == { n \in nodes' :
                            n.mrp_run_id = sess[s].run.id /\ n.parent_id = NULL }
             IN  /\ Cardinality(top) = Cardinality(with)
                 /\ { n.mps_item_id : n \in top }
                        = { sess[s].lines[k].id : k \in with }]_vars

\* A committed run with one top-level node for an MPS of two demand lines.
C6_Witness ==
    \E s \in Sessions :
        /\ sess[s].result.status = 201
        /\ sess[s].result.run_id \in RunIds
        /\ Cardinality(TopLevel(sess[s].result.run_id)) = 1
        /\ Len(mpss[sess[s].result.mps_id]) = 2

\* Session s is about to process, in process_bom_components, a component
\* whose item has no inventoryitem row.
AtMissingComponent(s) ==
    /\ sess[s].pc = "lines"
    /\ sess[s].stack # << >>
    /\ LET top == sess[s].stack[Len(sess[s].stack)]
       IN  top.components[top.i].component_id \notin DOMAIN items

AtMissingProduct(s) ==
    /\ sess[s].pc = "lines"
    /\ sess[s].stack = << >>
    /\ sess[s].idx <= Len(sess[s].lines)
    /\ sess[s].lines[sess[s].idx].product_id \notin DOMAIN items

RequestedMps(s) ==
    IF sess[s].pc = "lines" THEN sess[s].run.mps_id ELSE sess[s].result.mps_id

\* C9: CreateRun with an MPS id that has no row is answered 404 (MPS not
\* found) and changes neither the run headers nor the nodes, committed or
\* flushed.
C9_MpsNotFound ==
    [][\A s \in Sessions :
          (sess[s].pc = "idle" /\ sess'[s] # sess[s]
             /\ RequestedMps(s)' \notin DOMAIN mpss)
          => /\ sess'[s].pc = "idle"
             /\ sess'[s].result.status = 404
             /\ sess'[s].added = {}
             /\ runs' = runs
             /\ nodes' = nodes
             /\ nextRunId' = nextRunId]_vars

\* A request naming an unknown MPS was answered 404 while a run is stored.
C9_Witness ==
    \E s \in Sessions :
        /\ sess[s].result.status = 404
        /\ sess[s].result.mps_id \notin DOMAIN mpss
        /\ runs # {}
        /\ nodes # {}

\* C10: a DeleteRun that removes run r removes every node of r and leaves
\* the headers and nodes of the other runs, and the rows of the runs being
\* created, as they were.
C10_CascadeDelete ==
    [][\A r \in RequestRunIds :
          (r \in RunIds /\ r \notin RunIds')
          => /\ resp'.op = "delete_mrp_run" /\ resp'.arg = r /\ resp'.status = 204
             /\ { n \in nodes' : n.mrp_run_id = r } = {}
             /\ nodes' = { n \in nodes : n.mrp_run_id # r }
             /\ runs' = { h \in runs : h.id # r }
             /\ sess' = sess]_vars

\* A run was deleted while another run with nodes is stored.
C10_Witness ==
    /\ resp.op = "delete_mrp_run" /\ resp.status = 204
    /\ resp.arg \notin RunIds
    /\ runs # {}
    /\ \E n \in nodes : n.parent_id # NULL

\* ============================================================ run results

\* The orders in which the query of read_mrp_results, which has no ORDER BY,
\* hands back its rows: by ascending or by descending id.
ReadOrders == {"asc", "desc"}

RECURSIVE InOrder(_, _)
\* The rows of S as the sequence .all() returns in the given order.
InOrder(S, order) ==
    IF S = {} THEN << >>
    ELSE LET n == CHOOSE x \in S :
                      \A y \in S : IF order = "asc" THEN x.id <= y.id ELSE x.id >= y.id
         IN  << n >> \o InOrder(S \ {n}, order)

\* db.query(MRPItemModel, InventoryItem.item_code, InventoryItem.name)
\*   .join(InventoryItem, MRPItemModel.item_id == InventoryItem.id)
\*   .filter(MRPItemModel.mrp_run_id == run_id).all()
\* An inner join: a row whose item has no inventoryitem row is not returned.
\* (The item_code and name columns are not part of the model's item rows.)
MrpItemsQuery(run_id, order) ==
    InOrder({ n \in NodesOfRun(run_id) : n.item_id \in DOMAIN items }, order)

\* The keys of items_by_parent once the loop has passed row k: the parent_id
\* (None included) of every row up to and including k.
ItemsByParent(rows, k) == { rows[j].parent_id : j \in 1 .. k }

\* The MRPRunResultItem appended for row k of the query.
ResultItem(rows, k) ==
    LET mrp_item == rows[k]
    IN  [id |-> mrp_item.id,
         item_id |-> mrp_item.item_id,
         required_date |-> mrp_item.required_date,
         gross_requirement |-> mrp_item.gross_requirement,
         projected_on_hand |-> mrp_item.projected_on_hand,
         net_requirement |-> mrp_item.net_requirement,
         planned_order_release |-> mrp_item.planned_order_release,
         planned_order_receipt |-> mrp_item.planned_order_receipt,
         order_release_date |-> mrp_item.order_release_date,
         is_critical |-> mrp_item.is_critical,
         parent_id |-> mrp_item.parent_id,
         level |-> 0,
         has_children |-> mrp_item.id \in ItemsByParent(rows, k)]

\* The MRPRunResult built for a stored run: its header and one item per row
\* of the query, in the order of the query.
MrpRunResult(run_id, order) ==
    LET mrp_run == CHOOSE r \in runs : r.id = run_id
        rows == MrpItemsQuery(run_id, order)
    IN  [id |-> mrp_run.id,
         mps_id |-> mrp_run.mps_id,
         lead_time_factor |-> mrp_run.lead_time_factor,
         include_safety_stock |-> mrp_run.include_safety_stock,
         items |-> [k \in 1 .. Len(rows) |-> ResultItem(rows, k)]]

\* GET /api/mrp/{run_id}/results
read_mrp_results(run_id, order) ==
    /\ IF run_id \notin RunIds
       THEN resp' = [op |-> "read_mrp_results", arg |-> run_id, status |-> 404,
                     ids |-> {}, result |-> << >>]
       ELSE resp' = [op |-> "read_mrp_results", arg |-> run_id, status |-> 200,
                     ids |-> {}, result |-> MrpRunResult(run_id, order).items]
    /\ UNCHANGED << items, boms, mpss, runs, nodes, nextRunId, nextNodeId, pool, sess, locked, orders, ledger, txs >>

\* The requests of Next together with GET /api/mrp/{run_id}/results.
NextResults ==
    \/ Next
    \/ \E run_id \in RequestRunIds, order \in ReadOrders : read_mrp_results(run_id, order)

SpecResults == Init /\ [][NextResults]_vars

\* What GET /api/mrp/{run_id}/results reports for run r: the header and the
\* set of items with their field values.
Reported(r) ==
    LET result == MrpRunResult(r, "asc")
    IN  [id |-> result.id, mps_id |-> result.mps_id,
         lead_time_factor |-> result.lead_time_factor,
         include_safety_stock |-> result.include_safety_stock,
         items |-> { [f \in {"id", "item_id", "required_date", "gross_requirement",
                             "projected_on_hand", "net_requirement",
                             "planned_order_release", "planned_order_receipt",
                             "order_release_date", "is_critical", "parent_id"}
                        |-> result.items[k][f]] : k \in DOMAIN result.items }]

\* C11: no request other than the DeleteRun of a committed run changes what
\* GetRunResult reports for it: its header, its set of nodes and the field
\* values of its nodes.
C11_RunImmutable ==
    [][\A r \in RequestRunIds :
          (r \in RunIds /\ r \in RunIds') => Reported(r)' = Reported(r)]_vars

\* The mrpitem and mrprun tables as a request can see them: the committed
\* rows, or the committed rows with the rows a session has flushed.
TableViews ==
    { [rows |-> nodes, run_ids |-> RunIds] } \cup
    { [rows |-> nodes \cup sess[s].added,
       run_ids |-> RunIds \cup (IF sess[s].pc = "lines" THEN {sess[s].run.id} ELSE {})]
      : s \in Sessions }

RECURSIVE ReachesTop(_, _, _)
\* Following parent_id from row n inside the rows S reaches a row with
\* parent_id NULL in at most `fuel` steps.
ReachesTop(n, S, fuel) ==
    IF n.parent_id = NULL THEN TRUE
    ELSE IF fuel = 0 THEN FALSE
    ELSE \E p \in S : p.id = n.parent_id /\ ReachesTop(p, S, fuel - 1)

\* C12: in every reachable state every node has one run id, which names an
\* existing run; a non-null parent_id names a node of the same run; and the
\* parent_id chain of every node ends at a top-level node (the nodes of a run
\* form an acyclic forest).
C12_Forest ==
    \A v \in TableViews : \A n \in v.rows :
        /\ n.mrp_run_id \in v.run_ids
        /\ \A m \in v.rows : m.id = n.id => m = n
        /\ n.parent_id # NULL
           => \E p \in v.rows : p.id = n.parent_id /\ p.mrp_run_id = n.mrp_run_id
        /\ ReachesTop(n, v.rows, Cardinality(v.rows))

\* Two runs are stored, one of them with a node two levels below a top-level
\* node.
C12_Witness ==
    /\ Cardinality(runs) = 2
    /\ \E n \in nodes : \E p \in nodes :
           /\ p.id = n.parent_id
           /\ p.parent_id # NULL

\* ===================================================== concurrent CreateRun

\* The inventoryitem tables the concurrent runs start from: the three items
\* hold the same row.
ConcurrentItemTables == { t \in ItemTables : t[1] = t[2] /\ t[2] = t[3] }

\* The bodies of the concurrent POST /api/mrp/ requests: all name MPS 1.
ConcurrentRequests == { r \in Requests : r.mps_id \in MpsIds }

\* The tables as Init has them, with POST /api/mrp/ served by both sessions.
InitConcurrent ==
    /\ items \in ConcurrentItemTables
    /\ boms \in BomTables
    /\ mpss \in MpsTables
    /\ runs = {}
    /\ nodes = {}
    /\ nextRunId = 1
    /\ nextNodeId = 1
    /\ pool = Sessions
    /\ sess = [s \in Sessions |-> Idle(NoResult)]
    /\ resp = [op |-> "", arg |-> NULL, status |-> 0, ids |-> {}]
    /\ locked = {}
    /\ orders = << >>
    /\ ledger = << >>
    /\ txs = [t \in TxSessions |-> NoTx]

\* POST /api/mrp/ requests only, one per session, their steps interleaved in
\* every order (one after the other included); no request changes the MPS,
\* BOM or inventory tables.
NextConcurrent ==
    \/ \E s \in pool, mrp_run \in ConcurrentRequests :
           sess[s].result = NoResult /\ create_mrp_run_begin(s, mrp_run)
    \/ \E s \in pool : create_mrp_run_line(s)
    \/ \E s \in pool : process_bom_components(s)
    \/ \E s \in pool : create_mrp_run_commit(s)

SpecConcurrent == InitConcurrent /\ [][NextConcurrent]_vars

\* The position of the row with id `id` among the rows S in id order.
Rank(id, S) == Cardinality({ m \in S : m.id < id }) + 1

\* The rows S of one run with what differs from run to run taken out: ids
\* and parent ids become positions in the run, the run id is dropped.
Canon(S) ==
    { [n EXCEPT !.id = Rank(n.id, S),
                !.mrp_run_id = NULL,
                !.parent_id = IF n.parent_id = NULL THEN NULL ELSE Rank(n.parent_id, S)]
      : n \in S }

\* The parameters two runs must share to be runs of the same request.
SameRequest(r1, r2) ==
    /\ r1.mps_id = r2.mps_id
    /\ r1.lead_time_factor = r2.lead_time_factor
    /\ r1.include_safety_stock = r2.include_safety_stock

\* C13: two CreateRun calls with the same MPS, lead-time factor and
\* safety-stock flag, with no change of MPS, BOM or inventory data between
\* them, store node sets that are equal node for node (item, quantities,
\* dates, criticality, parent structure) up to ids and run id.
C13_Deterministic ==
    \A r1 \in runs : \A r2 \in runs :
        SameRequest(r1, r2) => Canon(NodesOfRun(r1.id)) = Canon(NodesOfRun(r2.id))

\* Two runs of the same request are stored, each with a node two levels
\* below a top-level node.
C13_Witness ==
    \E r1 \in runs : \E r2 \in runs :
        /\ r1.id # r2.id
        /\ SameRequest(r1, r2)
        /\ \A r \in {r1, r2} : \E n \in NodesOfRun(r.id) : \E p \in NodesOfRun(r.id) :
               p.id = n.parent_id /\ p.parent_id # NULL

RECURSIVE ExplodeComponents(_, _, _, _)
\* process_bom_components(frame) run to its return with no other request in
\* between, the rows numbered in the order they are added: acc holds the rows
\* added so far and whether RecursionError was raised, depth the open calls.
ExplodeComponents(acc, frame, run, depth) ==
    IF acc.error \/ frame.i > Len(frame.components) THEN acc
    ELSE LET component == frame.components[frame.i]
             item == QueryItem(component.component_id)
             rest == [frame EXCEPT !.i = @ + 1]
         IN  IF item.id = NULL
             THEN ExplodeComponents(acc, rest, run, depth)
             ELSE LET component_mrp_item ==
                          ComponentMrpItem(Len(acc.rows) + 1, NULL, component,
                                           frame.parent_id, frame.required_date,
                                           frame.parent_quantity,
                                           run.lead_time_factor,
                                           run.include_safety_stock)
                      component_bom == component_mrp_item.bom_id
                      added == [acc EXCEPT !.rows = Append(@, component_mrp_item)]
                      below ==
                          IF component_bom = NULL THEN added
                          ELSE IF depth >= RecursionLimit
                          THEN [added EXCEPT !.error = TRUE]
                          ELSE ExplodeComponents(added,
                                   Frame(component_bom, component_mrp_item.id,
                                         frame.required_date,
                                         ParentQuantity(component_mrp_item)),
                                   run, depth + 1)
                  IN  ExplodeComponents(below, rest, run, depth)

RECURSIVE ExplodeLines(_, _, _, _)
\* The loop of create_mrp_run over mps.schedule_items from line idx on.
ExplodeLines(acc, lines, idx, run) ==
    IF acc.error \/ idx > Len(lines) THEN acc
    ELSE LET mps_item == lines[idx]
             bom == ActiveBOM(mps_item.product_id)
             product_mrp_item ==
                 ProductMrpItem(Len(acc.rows) + 1, NULL, mps_item, bom,
                                run.lead_time_factor)
         IN  IF bom = NULL
             THEN ExplodeLines(acc, lines, idx + 1, run)
             ELSE ExplodeLines(
                      ExplodeComponents([acc EXCEPT !.rows = Append(@, product_mrp_item)],
                          Frame(bom, product_mrp_item.id, mps_item.planned_date,
                                ParentQuantity(product_mrp_item)),
                          run, 1),
                      lines, idx + 1, run)

\* The rows create_mrp_run adds for a run with the parameters of `run` when
\* it is the only request served, against the tables as they are.
ExplodeAlone(run) ==
    ExplodeLines([rows |-> << >>, error |-> FALSE],
                 QueryMps(run.mps_id).schedule_items, 1, run)

\* The steps session s can take once its request has begun.
SessionStep(s) ==
    \/ create_mrp_run_line(s)
    \/ process_bom_components(s)
    \/ create_mrp_run_commit(s)

\* C14: two CreateRun executions on the same MPS, their steps interleaved,
\* each commit the node set they would have produced alone; no node of one
\* run carries the run id of the other or has its parent in the other; and
\* neither is blocked by the other.
C14_Isolated ==
    /\ \A r \in runs :
           LET alone == ExplodeAlone(r)
           IN  /\ ~alone.error
               /\ Canon(NodesOfRun(r.id)) = { alone.rows[k] : k \in DOMAIN alone.rows }
    /\ \A s \in Sessions : \A n \in sess[s].added :
           /\ n.mrp_run_id = sess[s].run.id
           /\ n.parent_id # NULL => \E p \in sess[s].added : p.id = n.parent_id
    /\ \A n \in AllNodes : \A p \in AllNodes :
           p.id = n.parent_id => p.mrp_run_id = n.mrp_run_id
    /\ \A s \in Sessions : \A t \in Sessions \ {s} :
           sess[s].pc = "lines"
           => /\ sess[t].pc = "lines" => sess[t].run.id # sess[s].run.id
              /\ sess[s].added \cap sess[t].added = {}
              /\ ENABLED SessionStep(s)

\* Two runs are stored whose rows were flushed in alternation: a row of each
\* run has an id between the ids of two rows of the other.
C14_Witness ==
    \E r1 \in runs : \E r2 \in runs \ {r1} :
        /\ \E a \in NodesOfRun(r1.id) : \E b \in NodesOfRun(r2.id) :
           \E c \in NodesOfRun(r1.id) : \E d \in NodesOfRun(r2.id) :
               a.id < b.id /\ b.id < c.id /\ c.id < d.id
        /\ \E n \in NodesOfRun(r1.id) : n.parent_id # NULL

\* =================================================== inventory transactions

\* Bodies of POST /api/inventory/transactions/ (InventoryTransactionCreate):
\* a receipt or an issue of 2 of item 3.
Transactions ==
    [transaction_type : {"purchase_receipt", "sale_issue"},
     details : { << [item_id |-> 3, quantity |-> 2] >> }]

RECURSIVE UpdateQuantities(_, _, _, _)
\* The loop "Update inventory quantities" from detail k on, over the item
\* rows as the session holds them: ok is FALSE once an issue found less on
\* hand than it asks for.
UpdateQuantities(table, transaction_type, details, k) ==
    IF k > Len(details) THEN [ok |-> TRUE, table |-> table]
    ELSE LET detail == details[k]
             item == table[detail.item_id]
         IN  IF transaction_type \in {"purchase_receipt", "production_receipt"}
             THEN UpdateQuantities(
                      [table EXCEPT ![detail.item_id].quantity_on_hand = @ + detail.quantity],
                      transaction_type, details, k + 1)
             ELSE IF transaction_type \in {"sale_issue", "production_issue"}
             THEN IF item.quantity_on_hand < detail.quantity
                  THEN [ok |-> FALSE, table |-> table]
                  ELSE UpdateQuantities(
                           [table EXCEPT ![detail.item_id].quantity_on_hand = @ - detail.quantity],
                           transaction_type, details, k + 1)
             ELSE IF transaction_type = "adjustment"
             THEN UpdateQuantities(
                      [table EXCEPT ![detail.item_id].quantity_on_hand = @ + detail.quantity],
                      transaction_type, details, k + 1)
             ELSE UpdateQuantities(table, transaction_type, details, k + 1)

\* POST /api/inventory/transactions/: 404 when a detail names a missing item,
\* 400 with a rollback when an issue exceeds the quantity on hand, otherwise
\* the quantities of the items are committed together.
create_transaction(transaction) ==
    /\ IF \E k \in DOMAIN transaction.details :
             QueryItem(transaction.details[k].item_id).id = NULL
       THEN /\ resp' = [op |-> "create_transaction", arg |-> NULL, status |-> 404, ids |-> {}]
            /\ UNCHANGED << items, ledger >>
       ELSE LET updated == UpdateQuantities(items, transaction.transaction_type,
                                            transaction.details, 1)
            IN  IF ~updated.ok
                THEN /\ resp' = [op |-> "create_transaction", arg |-> NULL,
                                 status |-> 400, ids |-> {}]
                     /\ UNCHANGED << items, ledger >>
                ELSE /\ \A i \in DOMAIN items : updated.table[i].quantity_on_hand <= MaxOnHand
                     /\ Len(ledger) < MaxLedger
                     /\ items' = updated.table
                     /\ ledger' = Append(ledger, transaction)
                     /\ resp' = [op |-> "create_transaction", arg |-> NULL,
                                 status |-> 201, ids |-> {}]
    /\ UNCHANGED << boms, mpss, runs, nodes, nextRunId, nextNodeId, pool, sess, locked, orders, txs >>

\* POST /api/mrp/ served by one session, with inventory transactions
\* committing between its steps.
NextTransactions ==
    \/ \E s \in pool, mrp_run \in Requests : create_mrp_run_begin(s, mrp_run)
    \/ \E s \in pool : create_mrp_run_line(s)
    \/ \E s \in pool : process_bom_components(s)
    \/ \E s \in pool : create_mrp_run_commit(s)
    \/ \E transaction \in Transactions : create_transaction(transaction)

\* The tables as Init has them, the three items holding the same row.
InitTransactions ==
    /\ items \in ConcurrentItemTables
    /\ boms \in BomTables
    /\ mpss \in MpsTables
    /\ runs = {}
    /\ nodes = {}
    /\ nextRunId = 1
    /\ nextNodeId = 1
    /\ pool = {"s1"}
    /\ sess = [s \in Sessions |-> Idle(NoResult)]
    /\ resp = [op |-> "", arg |-> NULL, status |-> 0, ids |-> {}]
    /\ locked = {}
    /\ orders = << >>
    /\ ledger = << >>
    /\ txs = [t \in TxSessions |-> NoTx]

SpecTransactions == InitTransactions /\ [][NextTransactions]_vars

\* The header of the run with id r, stored or being created.
RunHeader(r) ==
    CHOOSE h \in runs \cup { sess[s].run : s \in Sessions } : h.id = r

\* C15: within one run the requirements for an item reached through
\* different branches are not consolidated (each node's net requirement is
\* computed from its own gross requirement), and any two nodes of the run for
\* the same item record the same projected_on_hand, also when an inventory
\* transaction on the item commits while the run is computed.
C15_SameSnapshot ==
    \A n \in AllNodes :
        /\ n.net_requirement =
               IF n.parent_id = NULL
               THEN TopNet(n.gross_requirement, n.projected_on_hand)
               ELSE NetReq(n.gross_requirement,
                           SafetyStock(items[n.item_id],
                                       RunHeader(n.mrp_run_id).include_safety_stock),
                           n.projected_on_hand)
        /\ \A m \in AllNodes :
               (m.mrp_run_id = n.mrp_run_id /\ m.item_id = n.item_id)
               => m.projected_on_hand = n.projected_on_hand

\* C16: CreateRun terminates with a run id or a typed error on every finite
\* data set, BOM graphs with a cycle included, because the depth of the
\* explosion is bounded by the cycle guard: no BOM is open twice on the path
\* being exploded, and a finished request answered with the run or with a
\* typed error.
C16_BoundedByCycleGuard ==
    \A s \in Sessions :
        /\ \A i \in DOMAIN sess[s].stack : \A j \in DOMAIN sess[s].stack :
               i # j => sess[s].stack[i].bom # sess[s].stack[j].bom
        /\ sess[s].result.status # 0
           => \/ sess[s].result.status = 201
              \/ sess[s].result.detail \in {"MPS not found", "CycleDetected"}

\* The last request was a GET /api/mrp/{run_id}/results answered with a result.
ResultsAnswered == resp.op = "read_mrp_results" /\ resp.status = 200

\* C17: in the result of GetRunResult every node with parent_id null has
\* level 0 and every other node has the level of its parent plus one.
C17_Levels ==
    ResultsAnswered
    => \A k \in DOMAIN resp.result :
           LET item == resp.result[k]
           IN  IF item.parent_id = NULL
               THEN item.level = 0
               ELSE \A j \in DOMAIN resp.result :
                        resp.result[j].id = item.parent_id
                        => item.level = resp.result[j].level + 1

\* C18: in the result of GetRunResult a node has has_children true exactly
\* when another node of the result has its id as parent_id, in whatever
\* order the nodes were read.
C18_HasChildren ==
    ResultsAnswered
    => \A k \in DOMAIN resp.result :
           resp.result[k].has_children
           <=> \E j \in DOMAIN resp.result :
                   j # k /\ resp.result[j].parent_id = resp.result[k].id

\* C19: when the nodes read for a run contain a node whose parent_id names a
\* node that is not among them, GetRunResult answers DataIntegrityError: it
\* never returns a result with such a node in it.
C19_OrphanReported ==
    ResultsAnswered
    => \A k \in DOMAIN resp.result :
           resp.result[k].parent_id # NULL
           => \E j \in DOMAIN resp.result : resp.result[j].id = resp.result[k].parent_id

\* C20 as stated: for every node, top-level or child, is_critical is true
\* exactly when projected_on_hand < gross_requirement, whatever the
\* safety-stock flag and the reorder point of the item.
C20_CriticalIffShort ==
    \A n \in AllNodes :
        n.is_critical <=> n.projected_on_hand < n.gross_requirement

\* C20, amended: a top-level node is critical exactly when
\* projected_on_hand < gross_requirement; a child node is critical exactly
\* when, in addition, its net_requirement is positive.
C20_CriticalIffShortAndNet ==
    \A n \in AllNodes :
        n.is_critical
        <=> /\ n.projected_on_hand < n.gross_requirement
            /\ n.parent_id # NULL => n.net_requirement > 0

\* A stored child node with less on hand than its gross requirement and no
\* net requirement (its negative reorder point was applied), next to a
\* critical child node and a critical top-level node.
C20_Witness ==
    /\ \E n \in nodes :
           /\ n.parent_id # NULL
           /\ n.projected_on_hand < n.gross_requirement
           /\ n.net_requirement = 0
           /\ ~n.is_critical
    /\ \E n \in nodes : n.parent_id # NULL /\ n.is_critical
    /\ \E n \in nodes : n.parent_id = NULL /\ n.is_critical

\* C21: for every node of every run planned_order_release and
\* planned_order_receipt both equal net_requirement (lot for lot).
C21_LotForLot ==
    \A n \in AllNodes :
        /\ n.planned_order_release = n.net_requirement
        /\ n.planned_order_receipt = n.net_requirement

\* A stored run has a top-level node and a child node with a positive net
\* requirement, and an odd one among them.
C21_Witness ==
    /\ \E n \in nodes : n.parent_id = NULL /\ n.net_requirement > 0
                          /\ n.net_requirement % 2 = 1
    /\ \E n \in nodes : n.parent_id # NULL /\ n.net_requirement > 0

\* ============================================== master production schedules

IsLockedMutNever(mps_id) == FALSE

\* db_mps.is_locked
IsLocked(mps_id) == mps_id \in locked

\* Bodies of PUT /api/mps/{mps_id} (MPSUpdate): is_locked given or not,
\* schedule_items given (one line: 2 of item 1 by day 11) or not.
MpsUpdates ==
    [is_locked : {"unset", "true", "false"},
     items_given : BOOLEAN,
     schedule_items : { << [product_id |-> 1, quantity |-> 2, planned_date |-> 11] >> }]

\* The ids of the mpsitem rows of the table.
LineIds == UNION { { mpss[m][k].id : k \in DOMAIN mpss[m] } : m \in DOMAIN mpss }

\* The id the next inserted mpsitem row gets.
NextLineId ==
    IF LineIds = {} THEN 1 ELSE (CHOOSE i \in LineIds : \A j \in LineIds : i >= j) + 1

\* MPSItem.mrp_items is a plain one-to-many relationship: deleting an mpsitem
\* row sets mps_item_id to NULL in the mrpitem rows that name it.
NullifyMpsItem(rows, line_ids) ==
    { IF n.mps_item_id \in line_ids THEN [n EXCEPT !.mps_item_id = NULL] ELSE n
      : n \in rows }

\* The value of is_locked after the setattr loop of update_mps.
SetLocked(mps_id, is_locked) ==
    IF is_locked = "true" THEN locked \cup {mps_id}
    ELSE IF is_locked = "false" THEN locked \ {mps_id}
    ELSE locked

\* PUT /api/mps/{mps_id}: 404 for an unknown id, 400 for a locked MPS;
\* otherwise the given attributes are set and, when schedule_items is given,
\* every item of the body is inserted as a new mpsitem row (no schema of the
\* body has an id field) and every existing row is deleted.
update_mps(mps_id, mps) ==
    /\ IF QueryMps(mps_id).id = NULL
       THEN /\ resp' = [op |-> "update_mps", arg |-> mps_id, status |-> 404, ids |-> {}]
            /\ UNCHANGED << mpss, locked, nodes >>
       ELSE IF IsLocked(mps_id)
       THEN /\ resp' = [op |-> "update_mps", arg |-> mps_id, status |-> 400, ids |-> {}]
            /\ UNCHANGED << mpss, locked, nodes >>
       ELSE IF ~mps.items_given
       THEN /\ locked' = SetLocked(mps_id, mps.is_locked)
            /\ resp' = [op |-> "update_mps", arg |-> mps_id, status |-> 200, ids |-> {}]
            /\ UNCHANGED << mpss, nodes >>
       ELSE IF \E k \in DOMAIN mps.schedule_items :
                   QueryItem(mps.schedule_items[k].product_id).id = NULL
       THEN /\ resp' = [op |-> "update_mps", arg |-> mps_id, status |-> 404, ids |-> {}]
            /\ UNCHANGED << mpss, locked, nodes >>
       ELSE LET existing_items == { mpss[mps_id][k].id : k \in DOMAIN mpss[mps_id] }
                first == NextLineId
            IN  /\ first + Len(mps.schedule_items) - 1 <= MaxLineId
                /\ mpss' = [mpss EXCEPT ![mps_id] =
                       [k \in DOMAIN mps.schedule_items |->
                           Line(first + k - 1, mps.schedule_items[k].product_id,
                                mps.schedule_items[k].quantity,
                                mps.schedule_items[k].planned_date)]]
                /\ nodes' = NullifyMpsItem(nodes, existing_items)
                /\ locked' = SetLocked(mps_id, mps.is_locked)
                /\ resp' = [op |-> "update_mps", arg |-> mps_id, status |-> 200, ids |-> {}]
    /\ UNCHANGED << items, boms, runs, nextRunId, nextNodeId, pool, sess, orders, ledger, txs >>

\* DELETE /api/mps/{mps_id}: 404 for an unknown id, 400 for a locked MPS;
\* otherwise the MPS is deleted with its schedule items (cascade).  No
\* relationship leads from an MPS to the runs computed from it: they stay.
delete_mps(mps_id) ==
    /\ IF QueryMps(mps_id).id = NULL
       THEN /\ resp' = [op |-> "delete_mps", arg |-> mps_id, status |-> 404, ids |-> {}]
            /\ UNCHANGED << mpss, locked, nodes >>
       ELSE IF IsLocked(mps_id)
       THEN /\ resp' = [op |-> "delete_mps", arg |-> mps_id, status |-> 400, ids |-> {}]
            /\ UNCHANGED << mpss, locked, nodes >>
       ELSE /\ mpss' = [m \in DOMAIN mpss \ {mps_id} |-> mpss[m]]
            /\ nodes' = NullifyMpsItem(nodes,
                            { mpss[mps_id][k].id : k \in DOMAIN mpss[mps_id] })
            /\ locked' = locked \ {mps_id}
            /\ resp' = [op |-> "delete_mps", arg |-> mps_id, status |-> 204, ids |-> {}]
    /\ UNCHANGED << items, boms, runs, nextRunId, nextNodeId, pool, sess, orders, ledger, txs >>

\* POST /api/mps/{mps_id}/lock
lock_mps(mps_id) ==
    /\ IF QueryMps(mps_id).id = NULL
       THEN /\ resp' = [op |-> "lock_mps", arg |-> mps_id, status |-> 404, ids |-> {}]
            /\ UNCHANGED locked
       ELSE /\ locked' = locked \cup {mps_id}
            /\ resp' = [op |-> "lock_mps", arg |-> mps_id, status |-> 200, ids |-> {}]
    /\ UNCHANGED << items, boms, mpss, runs, nodes, nextRunId, nextNodeId, pool, sess,
                    orders, ledger, txs >>

\* POST /api/mps/{mps_id}/unlock
unlock_mps(mps_id) ==
    /\ IF QueryMps(mps_id).id = NULL
       THEN /\ resp' = [op |-> "unlock_mps", arg |-> mps_id, status |-> 404, ids |-> {}]
            /\ UNCHANGED locked
       ELSE /\ locked' = locked \ {mps_id}
            /\ resp' = [op |-> "unlock_mps", arg |-> mps_id, status |-> 200, ids |-> {}]
    /\ UNCHANGED << items, boms, mpss, runs, nodes, nextRunId, nextNodeId, pool, sess,
                    orders, ledger, txs >>

\* One POST /api/mrp/ request, with the requests on the MPS table before,
\* between and after its steps.
NextMps ==
    \/ \E s \in pool, mrp_run \in ConcurrentRequests :
           sess[s].result = NoResult /\ create_mrp_run_begin(s, mrp_run)
    \/ \E s \in pool : create_mrp_run_line(s)
    \/ \E s \in pool : process_bom_components(s)
    \/ \E s \in pool : create_mrp_run_commit(s)
    \/ \E mps_id \in RequestMpsIds, mps \in MpsUpdates : update_mps(mps_id, mps)
    \/ \E mps_id \in RequestMpsIds : delete_mps(mps_id)
    \/ \E mps_id \in RequestMpsIds : lock_mps(mps_id)
    \/ \E mps_id \in RequestMpsIds : unlock_mps(mps_id)

SpecMps == InitTransactions /\ [][NextMps]_vars

\* C22: in every run a node has mps_item_id set, to the id of its demand
\* line, if and only if it is top-level; every child node has mps_item_id
\* null and a parent.
C22_MpsItemIffTopLevel ==
    \A n \in nodes :
        /\ n.mps_item_id # NULL <=> n.parent_id = NULL
        /\ n.mps_item_id # NULL => n.mps_item_id \in LineIds

\* C25: while an MPS is locked every update_mps and delete_mps on it is
\* answered with an error and leaves its header and schedule lines as they
\* were; the schedule lines of an MPS change only in steps that start with
\* it unlocked; and only lock_mps and unlock_mps change the flag of a locked
\* MPS.
C25_LockedMpsFrozen ==
    [][\A m \in DOMAIN mpss :
          /\ m \in locked
             => /\ m \in DOMAIN mpss' /\ mpss'[m] = mpss[m]
                /\ m \notin locked' => resp'.op = "unlock_mps" /\ resp'.arg = m
                /\ (resp' # resp /\ resp'.op \in {"update_mps", "delete_mps"}
                      /\ resp'.arg = m)
                   => /\ resp'.status = 400
                      /\ UNCHANGED << mpss, locked, nodes >>
          /\ (m \notin DOMAIN mpss' \/ mpss'[m] # mpss[m]) => m \notin locked]_vars

\* An update or a delete was refused on the locked MPS, whose schedule
\* lines had been replaced while it was unlocked.
C25_Witness ==
    /\ resp.op \in {"update_mps", "delete_mps"}
    /\ resp.status = 400
    /\ resp.arg \in locked
    /\ \E k \in DOMAIN mpss[resp.arg] : mpss[resp.arg][k].id > 2

\* ================================================================ lead times

\* The lead-time factors of the bodies of POST /api/mrp/ in whole days: 0
\* (release on the required date), the default 1, and 2.
WideLeadTimeFactors == {0, 1, 2}

LeadTimeRequests ==
    [mps_id : MpsIds,
     lead_time_factor : WideLeadTimeFactors,
     include_safety_stock : BOOLEAN]

\* One run is created, with any of the factors, while item 2 may be deleted
\* between its steps.
NextLeadTime ==
    \/ \E s \in pool, mrp_run \in LeadTimeRequests :
           sess[s].result = NoResult /\ create_mrp_run_begin(s, mrp_run)
    \/ \E s \in pool : create_mrp_run_line(s)
    \/ \E s \in pool : process_bom_components(s)
    \/ \E s \in pool : create_mrp_run_commit(s)
    \/ \E item_id \in DeletableItems : delete_inventory_item(item_id)

SpecLeadTime == Init /\ [][NextLeadTime]_vars

\* C23: for every node of a run, order_release_date = required_date -
\* (lead_time_days * lead_time_factor) days, where lead_time_days is 1 for
\* every item (no item carries a lead-time attribute), a missing item
\* included, and lead_time_factor is the factor of the node's run.
C23_ReleaseDate ==
    \A n \in AllNodes :
        n.order_release_date =
            n.required_date - 1 * RunHeader(n.mrp_run_id).lead_time_factor

\* A stored run with factor 2 has a top-level node whose item is missing
\* and a child node.
C23_Witness ==
    \E r \in runs :
        /\ r.lead_time_factor = 2
        /\ \E n \in nodes :
               /\ n.mrp_run_id = r.id /\ n.parent_id = NULL
               /\ n.item_id \notin DOMAIN items
        /\ \E n \in nodes : n.mrp_run_id = r.id /\ n.parent_id # NULL

\* ======================================================= the engine's writes

\* The requests of NextMps together with DELETE /api/mrp/{run_id} and
\* GET /api/mrp/{run_id}/results.
NextEngine ==
    \/ NextMps
    \/ \E run_id \in RequestRunIds : delete_mrp_run(run_id)
    \/ \E run_id \in RequestRunIds, order \in ReadOrders : read_mrp_results(run_id, order)

SpecEngine == InitTransactions /\ [][NextEngine]_vars

\* A step of CreateRun (every one changes its session), or the answer to a
\* GetRunResult or a DeleteRun.
EngineStep ==
    \/ sess' # sess
    \/ resp' # resp /\ resp'.op \in {"read_mrp_results", "delete_mrp_run"}

\* C24: CreateRun, GetRunResult and DeleteRun leave every inventory item,
\* every BOM with its components, and every MPS with its is_locked flag and
\* its schedule lines unchanged, whether they succeed or fail.
C24_EngineFrame ==
    [][EngineStep => UNCHANGED << items, boms, mpss, locked >>]_vars

\* While the MPS is locked, a CreateRun has succeeded or has failed and a
\* DeleteRun of its run has been answered.
C24_Witness ==
    /\ locked # {}
    /\ \E s \in pool : sess[s].result.status \in {201, 500}
    /\ resp.op = "delete_mrp_run" /\ resp.status \in {204, 404}
    /\ resp.arg = 1

\* C26: GetRunResult and DeleteRun called with a run id that does not exist
\* are answered RunNotFound (404) and leave all run headers and all nodes
\* unchanged, so that the request repeated meets the same rows and gets the
\* same answer.
C26_RunNotFound ==
    [][(/\ resp' # resp
        /\ resp'.op \in {"read_mrp_results", "delete_mrp_run"}
        /\ resp'.arg \notin { r.id : r \in runs })
       => /\ resp'.status = 404
          /\ UNCHANGED << runs, nodes >>
          /\ resp'.arg \notin { r.id : r \in runs' }]_vars

\* A request for a run id without row was answered 404 while another run
\* was stored with its nodes, or while the run of that id was being created.
C26_Witness ==
    /\ resp.op \in {"read_mrp_results", "delete_mrp_run"}
    /\ resp.status = 404
    /\ \/ runs # {} /\ nodes # {}
       \/ \E s \in pool : sess[s].pc = "lines" /\ sess[s].run.id = resp.arg

\* C27: for every top-level node gross_requirement is the quantity of its
\* demand line and net_requirement = max(0, quantity - on-hand of the
\* product), with the product's reorder point never added, whatever the
\* run's include_safety_stock flag, and on-hand 0 for a missing product.
C27_TopLevelNoSafetyStock ==
    [][\A s \in Sessions : \A n \in NewNodes(s) :
          n.parent_id = NULL
          => LET line == sess[s].lines[sess[s].idx]
                 on_hand == IF line.product_id \in DOMAIN items
                            THEN items[line.product_id].quantity_on_hand
                            ELSE 0
             IN  /\ n.item_id = line.product_id
                 /\ n.gross_requirement = line.quantity
                 /\ n.projected_on_hand = on_hand
                 /\ n.net_requirement = Max(0, line.quantity - on_hand)]_vars

\* A run that includes safety stock stored a top-level node of a product
\* with a positive reorder point and a top-level node of a missing product,
\* whose net requirement is the whole quantity.
C27_Witness ==
    \E r \in runs :
        /\ r.include_safety_stock
        /\ \E n \in nodes :
               /\ n.mrp_run_id = r.id /\ n.parent_id = NULL
               /\ n.item_id \in DOMAIN items
               /\ items[n.item_id].reorder_point > 0
               /\ n.net_requirement > 0
        /\ \E n \in nodes :
               /\ n.mrp_run_id = r.id /\ n.parent_id = NULL
               /\ n.item_id \notin DOMAIN items
               /\ n.projected_on_hand = 0
               /\ n.net_requirement = n.gross_requirement

\* ========================================================= production orders

\* The ids of the productionorder rows the model creates.
OrderIds == {1}

\* ProductionOrderStatus
OrderStatuses == {"draft", "planned", "released", "in_progress", "completed", "cancelled"}

\* The order ids requests name: id 2 has no row.
RequestOrderIds == {1, 2}

\* The values datetime.utcnow() returns.
Times == {1, 2}

\* Bodies of POST /api/production-orders/ (ProductionOrderCreate): 2 of
\* product 1, or of product 4 which has no inventoryitem row; no BOM, no MRP
\* item, no allocations and no operations; the other fields at their
\* defaults.
OrderCreates ==
    [product_id : {1, 4}, status : {"draft", "planned"}, planned_quantity : {2}]

\* Bodies of PUT /api/production-orders/{order_id} (ProductionOrderUpdate):
\* the fields in `given` are set, the others are left out of the body.
OrderUpdates ==
    { u \in [given : SUBSET {"status", "completed_quantity"},
             status : OrderStatuses,
             completed_quantity : {1}] :
        "status" \notin u.given => u.status = "draft" }

\* order.status of an update body: None when the field is not set.
BodyStatus(order) == IF "status" \in order.given THEN order.status ELSE "None"

\* The id the database gives the next productionorder row.
NextOrderId ==
    IF DOMAIN orders = {} THEN 1
    ELSE (CHOOSE i \in DOMAIN orders : \A j \in DOMAIN orders : j <= i) + 1

\* The answer of a production order endpoint.
OrderResp(op, order_id, status) ==
    [op |-> op, arg |-> order_id, status |-> status, ids |-> {}]

\* POST /api/production-orders/
create_production_order(order) ==
    /\ IF QueryItem(order.product_id).id = NULL
       THEN /\ resp' = OrderResp("create_production_order", NULL, 404)
            /\ UNCHANGED orders
       ELSE /\ NextOrderId \in OrderIds
            /\ orders' =
                   [i \in DOMAIN orders \cup {NextOrderId} |->
                      IF i \in DOMAIN orders THEN orders[i]
                      ELSE [product_id |-> order.product_id,
                            bom_id |-> NULL,
                            status |-> order.status,
                            planned_quantity |-> order.planned_quantity,
                            completed_quantity |-> 0,
                            actual_start_date |-> NULL,
                            actual_end_date |-> NULL,
                            material_allocations |-> << >>]]
            /\ resp' = OrderResp("create_production_order", NextOrderId, 201)
    /\ UNCHANGED << items, boms, mpss, runs, nodes, nextRunId, nextNodeId, pool, sess,
                    locked, ledger, txs >>

\* setattr(db_order, key, value) for the fields of the body that are set.
SetAttrs(db_order, order) ==
    [db_order EXCEPT
        !.status = IF "status" \in order.given THEN order.status ELSE @,
        !.completed_quantity =
            IF "completed_quantity" \in order.given THEN order.completed_quantity ELSE @]

\* PUT /api/production-orders/{order_id}
update_production_order(order_id, order) ==
    /\ IF order_id \notin DOMAIN orders
       THEN /\ resp' = OrderResp("update_production_order", order_id, 404)
            /\ UNCHANGED orders
       ELSE IF /\ orders[order_id].status \in {"completed", "cancelled"}
               /\ BodyStatus(order) \notin {"completed", "cancelled"}
       THEN /\ resp' = OrderResp("update_production_order", order_id, 400)
            /\ UNCHANGED orders
       ELSE /\ orders' = [orders EXCEPT ![order_id] = SetAttrs(@, order)]
            /\ resp' = OrderResp("update_production_order", order_id, 200)
    /\ UNCHANGED << items, boms, mpss, runs, nodes, nextRunId, nextNodeId, pool, sess,
                    locked, ledger, txs >>

\* DELETE /api/production-orders/{order_id}
delete_production_order(order_id) ==
    /\ IF order_id \notin DOMAIN orders
       THEN /\ resp' = OrderResp("delete_production_order", order_id, 404)
            /\ UNCHANGED orders
       ELSE IF orders[order_id].status # "draft"
       THEN /\ resp' = OrderResp("delete_production_order", order_id, 400)
            /\ UNCHANGED orders
       ELSE /\ orders' = [i \in DOMAIN orders \ {order_id} |-> orders[i]]
            /\ resp' = OrderResp("delete_production_order", order_id, 204)
    /\ UNCHANGED << items, boms, mpss, runs, nodes, nextRunId, nextNodeId, pool, sess,
                    locked, ledger, txs >>

\* POST /api/production-orders/{order_id}/release
release_production_order(order_id) ==
    /\ IF order_id \notin DOMAIN orders
       THEN /\ resp' = OrderResp("release_production_order", order_id, 404)
            /\ UNCHANGED orders
       ELSE IF orders[order_id].status \notin {"draft", "planned"}
       THEN /\ resp' = OrderResp("release_production_order", order_id, 400)
            /\ UNCHANGED orders
       ELSE /\ orders' = [orders EXCEPT ![order_id].status = "released"]
            /\ resp' = OrderResp("release_production_order", order_id, 200)
    /\ UNCHANGED << items, boms, mpss, runs, nodes, nextRunId, nextNodeId, pool, sess,
                    locked, ledger, txs >>

\* POST /api/production-orders/{order_id}/start
start_production_order(order_id, utcnow) ==
    /\ IF order_id \notin DOMAIN orders
       THEN /\ resp' = OrderResp("start_production_order", order_id, 404)
            /\ UNCHANGED orders
       ELSE IF orders[order_id].status # "released"
       THEN /\ resp' = OrderResp("start_production_order", order_id, 400)
            /\ UNCHANGED orders
       ELSE /\ orders' = [orders EXCEPT ![order_id].status = "in_progress",
                                        ![order_id].actual_start_date = utcnow]
            /\ resp' = OrderResp("start_production_order", order_id, 200)
    /\ UNCHANGED << items, boms, mpss, runs, nodes, nextRunId, nextNodeId, pool, sess,
                    locked, ledger, txs >>

QuantityRejectedMutOnlyPositive(completed_quantity, planned_quantity) ==
    completed_quantity <= 0

\* completed_quantity <= 0 or completed_quantity > db_order.planned_quantity
QuantityRejected(completed_quantity, planned_quantity) ==
    completed_quantity <= 0 \/ completed_quantity > planned_quantity

\* The quantities POST /api/production-orders/{order_id}/complete is called
\* with, for orders of planned quantity 2.
CompletedQuantities == 0 .. 3

\* POST /api/production-orders/{order_id}/complete
complete_production_order(order_id, completed_quantity, utcnow) ==
    /\ IF order_id \notin DOMAIN orders
       THEN /\ resp' = [OrderResp("complete_production_order", order_id, 404)
                        EXCEPT !.ids = {completed_quantity}]
            /\ UNCHANGED orders
       ELSE IF \/ orders[order_id].status # "in_progress"
               \/ QuantityRejected(completed_quantity, orders[order_id].planned_quantity)
       THEN /\ resp' = [OrderResp("complete_production_order", order_id, 400)
                        EXCEPT !.ids = {completed_quantity}]
            /\ UNCHANGED orders
       ELSE /\ orders' = [orders EXCEPT ![order_id].status = "completed",
                                        ![order_id].actual_end_date = utcnow,
                                        ![order_id].completed_quantity = completed_quantity]
            /\ resp' = [OrderResp("complete_production_order", order_id, 200)
                        EXCEPT !.ids = {completed_quantity}]
    /\ UNCHANGED << items, boms, mpss, runs, nodes, nextRunId, nextNodeId, pool, sess,
                    locked, ledger, txs >>

\* POST /api/production-orders/{order_id}/cancel
cancel_production_order(order_id) ==
    /\ IF order_id \notin DOMAIN orders
       THEN /\ resp' = OrderResp("cancel_production_order", order_id, 404)
            /\ UNCHANGED orders
       ELSE IF orders[order_id].status = "completed"
       THEN /\ resp' = OrderResp("cancel_production_order", order_id, 400)
            /\ UNCHANGED orders
       ELSE /\ orders' = [orders EXCEPT ![order_id].status = "cancelled"]
            /\ resp' = OrderResp("cancel_production_order", order_id, 200)
    /\ UNCHANGED << items, boms, mpss, runs, nodes, nextRunId, nextNodeId, pool, sess,
                    locked, ledger, txs >>

\* The MaterialAllocation rows added for the components of a BOM.
Allocations(bom_id, planned_quantity) ==
    [k \in DOMAIN boms[bom_id].components |->
        [component_id |-> boms[bom_id].components[k].component_id,
         required_quantity |-> boms[bom_id].components[k].quantity * planned_quantity]]

\* The BOM ids generate-from-bom is called with: BOM 3 has no row.
RequestBomIds == BomIds \cup {3}

\* POST /api/production-orders/{order_id}/generate-from-bom
generate_from_bom(order_id, bom_id) ==
    /\ IF order_id \notin DOMAIN orders
       THEN /\ resp' = OrderResp("generate_from_bom", order_id, 404)
            /\ UNCHANGED orders
       ELSE IF orders[order_id].status # "draft"
       THEN /\ resp' = OrderResp("generate_from_bom", order_id, 400)
            /\ UNCHANGED orders
       ELSE IF bom_id \notin DOMAIN boms
       THEN /\ resp' = OrderResp("generate_from_bom", order_id, 404)
            /\ UNCHANGED orders
       ELSE IF boms[bom_id].product_id # orders[order_id].product_id
       THEN /\ resp' = OrderResp("generate_from_bom", order_id, 400)
            /\ UNCHANGED orders
       ELSE /\ orders' = [orders EXCEPT
                   ![order_id].material_allocations =
                       Allocations(bom_id, orders[order_id].planned_quantity),
                   ![order_id].bom_id = bom_id]
            /\ resp' = OrderResp("generate_from_bom", order_id, 200)
    /\ UNCHANGED << items, boms, mpss, runs, nodes, nextRunId, nextNodeId, pool, sess,
                    locked, ledger, txs >>

NextOrders ==
    \/ \E order \in OrderCreates : create_production_order(order)
    \/ \E order_id \in RequestOrderIds, order \in OrderUpdates :
           update_production_order(order_id, order)
    \/ \E order_id \in RequestOrderIds : delete_production_order(order_id)
    \/ \E order_id \in RequestOrderIds : release_production_order(order_id)
    \/ \E order_id \in RequestOrderIds, utcnow \in Times :
           start_production_order(order_id, utcnow)
    \/ \E order_id \in RequestOrderIds, q \in CompletedQuantities, utcnow \in Times :
           complete_production_order(order_id, q, utcnow)
    \/ \E order_id \in RequestOrderIds : cancel_production_order(order_id)
    \/ \E order_id \in RequestOrderIds, bom_id \in RequestBomIds :
           generate_from_bom(order_id, bom_id)

SpecOrders == InitTransactions /\ [][NextOrders]_vars

\* C28: a production order whose status is COMPLETED is terminal: no update,
\* release, start, complete, cancel, generate-from-bom or delete changes its
\* status (in particular to CANCELLED) or removes it.
C28_CompletedTerminal ==
    [][\A o \in DOMAIN orders :
          orders[o].status = "completed"
          => o \in DOMAIN orders' /\ orders'[o].status = "completed"]_vars

\* The four lifecycle endpoints.
Lifecycle ==
    {"release_production_order", "start_production_order",
     "complete_production_order", "cancel_production_order"}

\* C29: through the lifecycle endpoints the status of a production order
\* moves only DRAFT or PLANNED -> RELEASED (release), RELEASED -> IN_PROGRESS
\* (start), IN_PROGRESS -> COMPLETED (complete, with 0 < completed_quantity
\* <= planned_quantity) and any status but COMPLETED -> CANCELLED (cancel);
\* a call in any other status, or complete with a quantity outside the
\* range, fails and leaves the order (status, dates, completed_quantity)
\* unchanged.
C29_Lifecycle ==
    [][\A o \in DOMAIN orders :
          (resp' # resp /\ resp'.op \in Lifecycle /\ resp'.arg = o)
          => /\ o \in DOMAIN orders'
             /\ LET a == orders[o]
                    b == orders'[o]
                    op == resp'.op
                    allowed ==
                        \/ op = "release_production_order"
                           /\ a.status \in {"draft", "planned"}
                        \/ op = "start_production_order" /\ a.status = "released"
                        \/ op = "complete_production_order"
                           /\ a.status = "in_progress"
                           /\ \E q \in resp'.ids : 0 < q /\ q <= a.planned_quantity
                        \/ op = "cancel_production_order" /\ a.status # "completed"
                IN  /\ allowed <=> resp'.status = 200
                    /\ ~allowed => b = a
                    /\ allowed =>
                         /\ b.status =
                              CASE op = "release_production_order" -> "released"
                                [] op = "start_production_order" -> "in_progress"
                                [] op = "complete_production_order" -> "completed"
                                [] op = "cancel_production_order" -> "cancelled"
                         /\ op = "complete_production_order"
                            => b.completed_quantity \in resp'.ids]_vars

\* An order went through release, start and complete, after a complete with
\* a quantity above the planned one was refused.
C29_Witness ==
    \E o \in DOMAIN orders :
        /\ orders[o].status = "completed"
        /\ orders[o].actual_start_date # NULL
        /\ orders[o].actual_end_date # NULL
        /\ orders[o].completed_quantity = orders[o].planned_quantity
        /\ resp.op = "complete_production_order" /\ resp.status = 400
        /\ resp.ids = {3}

\* ================================================= concurrent transactions

\* Bodies of POST /api/inventory/transactions/ for two clients: those of
\* Transactions, and an issue of 1 of item 2 and 5 of item 3.
IssueTransactions ==
    Transactions \cup
    { [transaction_type |-> "sale_issue",
       details |-> << [item_id |-> 2, quantity |-> 1], [item_id |-> 3, quantity |-> 5] >>] }

\* item.quantity_on_hand as session t reads it: the InventoryItem object the
\* session already holds keeps its attributes when it is queried again; a
\* row it does not hold is read as committed.
SessionOnHand(t, item_id) ==
    IF item_id \in DOMAIN txs[t].dirty
    THEN txs[t].dirty[item_id]
    ELSE items[item_id].quantity_on_hand

\* create_transaction up to the loop that updates the quantities: every
\* detail's item is looked up (404 when one is missing) and the object of
\* the last lookup stays referenced by `item`; the transaction row and its
\* details are added to the session.
create_transaction_begin(t, transaction) ==
    /\ txs[t].pc = "idle"
    /\ IF \E k \in DOMAIN transaction.details :
             QueryItem(transaction.details[k].item_id).id = NULL
       THEN txs' = [txs EXCEPT ![t] = [NoTx EXCEPT !.status = 404]]
       ELSE LET last == transaction.details[Len(transaction.details)].item_id
            IN  txs' = [txs EXCEPT ![t] =
                    [pc |-> "update", transaction |-> transaction, k |-> 1,
                     dirty |-> [i \in {last} |-> items[i].quantity_on_hand],
                     status |-> 0]]
    /\ UNCHANGED << items, boms, mpss, runs, nodes, nextRunId, nextNodeId, pool, sess,
                    resp, locked, orders, ledger >>

\* One pass of the loop "Update inventory quantities": a receipt or an
\* adjustment adds to the item object, an issue checks the object's quantity
\* and rolls the session back with 400 when it is too small, or subtracts.
create_transaction_detail(t) ==
    /\ txs[t].pc = "update"
    /\ txs[t].k <= Len(txs[t].transaction.details)
    /\ LET transaction_type == txs[t].transaction.transaction_type
           detail == txs[t].transaction.details[txs[t].k]
           on_hand == SessionOnHand(t, detail.item_id)
           Set(q) == [i \in DOMAIN txs[t].dirty \cup {detail.item_id} |->
                         IF i = detail.item_id THEN q ELSE txs[t].dirty[i]]
       IN  IF transaction_type \in {"purchase_receipt", "production_receipt", "adjustment"}
           THEN txs' = [txs EXCEPT ![t].dirty = Set(on_hand + detail.quantity),
                                   ![t].k = @ + 1]
           ELSE IF transaction_type \in {"sale_issue", "production_issue"}
           THEN IF on_hand < detail.quantity
                THEN txs' = [txs EXCEPT ![t] = [NoTx EXCEPT !.status = 400]]
                ELSE txs' = [txs EXCEPT ![t].dirty = Set(on_hand - detail.quantity),
                                        ![t].k = @ + 1]
           ELSE txs' = [txs EXCEPT ![t].dirty = Set(on_hand), ![t].k = @ + 1]
    /\ UNCHANGED << items, boms, mpss, runs, nodes, nextRunId, nextNodeId, pool, sess,
                    resp, locked, orders, ledger >>

\* db.commit(): the quantities of the session's item objects are written to
\* their rows, together with the transaction and its details.
create_transaction_commit(t) ==
    /\ txs[t].pc = "update"
    /\ txs[t].k > Len(txs[t].transaction.details)
    /\ Len(ledger) < MaxLedger
    /\ \A i \in DOMAIN txs[t].dirty : txs[t].dirty[i] <= MaxOnHand
    /\ items' = [i \in DOMAIN items |->
           IF i \in DOMAIN txs[t].dirty
           THEN [items[i] EXCEPT !.quantity_on_hand = txs[t].dirty[i]]
           ELSE items[i]]
    /\ ledger' = Append(ledger, txs[t].transaction)
    /\ txs' = [txs EXCEPT ![t] = [NoTx EXCEPT !.status = 201]]
    /\ UNCHANGED << boms, mpss, runs, nodes, nextRunId, nextNodeId, pool, sess,
                    resp, locked, orders >>

\* Two clients post inventory transactions; the steps of their requests
\* interleave.
NextIssues ==
    \/ \E t \in TxSessions, transaction \in IssueTransactions :
           create_transaction_begin(t, transaction)
    \/ \E t \in TxSessions : create_transaction_detail(t)
    \/ \E t \in TxSessions : create_transaction_commit(t)

SpecIssues == InitTransactions /\ [][NextIssues]_vars

\* The transaction is an issue.
IsIssue(transaction) ==
    transaction.transaction_type \in {"sale_issue", "production_issue"}

\* C30: an issue never takes an item's quantity_on_hand from non-negative to
\* below zero; an issue asking for more than is available fails and leaves
\* every item quantity and the ledger unchanged, details of the same
\* transaction already applied included; and so it is when the check and
\* decrement steps of two issues on the same item interleave: an issue that
\* is recorded found its quantity available in the rows it is applied to.
C30_IssueWithinAvailable ==
    [][/\ \A i \in DOMAIN items :
             items[i].quantity_on_hand >= 0 => items'[i].quantity_on_hand >= 0
       /\ \A t \in TxSessions :
             (txs[t].pc = "update" /\ txs'[t].status = 400)
             => UNCHANGED << items, ledger >>
       /\ (ledger' # ledger /\ IsIssue(ledger'[Len(ledger')]))
          => \A k \in DOMAIN ledger'[Len(ledger')].details :
                LET detail == ledger'[Len(ledger')].details[k]
                IN  items[detail.item_id].quantity_on_hand >= detail.quantity]_vars

====
